---- MODULE Spec2Model ----
(***************************************************************************)
(* A model of bezier/_surface_intersection.py: the surface intersector     *)
(* (generic_intersect, surface_intersections, add_intersection), the       *)
(* duplicate verification (same_intersection, verify_duplicates), the      *)
(* point locator (locate_point) and the Newton refiner (newton_refine).    *)
(***************************************************************************)
EXTENDS Integers, Sequences, FiniteSets, TLC

VARIABLES
    \* generic_intersect / surface_intersections
    gi_pc, verify, bbox_int, edge_nodes1, edge_nodes2, pair,
    intersections, duplicates, unused, all_types,
    calls, pairs_called, raw_total, combine_arg, combine_ret, result,
    \* verify_duplicates
    vd_pc, uniques, dupes, vd_k, counter, vd_error,
    \* newton_refine
    nr_pc, nr_args, surf, jac_both, nr_out, nr_calls,
    \* locate_point
    lp_pc, lp_args, candidates, lp_round, lp_hits, lp_st, lp_calls, lp_result,
    \* newton_refine_solve
    ns_pc, ns_args, ns_out

gi_vars == <<gi_pc, verify, bbox_int, edge_nodes1, edge_nodes2, pair,
             intersections, duplicates, unused, all_types,
             calls, pairs_called, raw_total, combine_arg, combine_ret,
             result>>
vd_vars == <<vd_pc, uniques, dupes, vd_k, counter, vd_error>>
nr_vars == <<nr_pc, nr_args, surf, jac_both, nr_out, nr_calls>>
lp_vars == <<lp_pc, lp_args, candidates, lp_round, lp_hits, lp_st, lp_calls,
             lp_result>>
ns_vars == <<ns_pc, ns_args, ns_out>>
vars == <<gi_vars, vd_vars, nr_vars, lp_vars, ns_vars>>

(***************************************************************************)
(* Bounds of the model.                                                    *)
(***************************************************************************)
\* The most raw (s, t) crossings the curve-curve primitive returns in all
\* during one generic_intersect call.
MaxRaw == 2
\* The longest uniques / duplicates lists handed to verify_duplicates directly.
MaxUniques == 2
MaxDupes == 3

SeqsUpTo(S, n) == UNION {[1..k -> S] : k \in 0..n}

(***************************************************************************)
(* Parameter values.  A float is written exactly in three digits,          *)
(*     hi * 2^-1  +  mid * 2^-42  +  lo * 2^-82,                           *)
(* with mid and lo small, so that digit-wise subtraction is exact and the  *)
(* order of two numbers is the lexicographic order of their digits.  All   *)
(* the operations below are exact on these values, as the IEEE operations  *)
(* are on the doubles they stand for.                                      *)
(***************************************************************************)
F(hi, mid) == [hi |-> hi, mid |-> mid, lo |-> 0]
Zero == F(0, 0)
Half == F(1, 0)
One  == F(2, 0)

FSub(a, b) == [hi |-> a.hi - b.hi, mid |-> a.mid - b.mid, lo |-> a.lo - b.lo]
FNeg(a) == [hi |-> -a.hi, mid |-> -a.mid, lo |-> -a.lo]
FLess(a, b) ==
    \/ a.hi < b.hi
    \/ a.hi = b.hi /\ a.mid < b.mid
    \/ a.hi = b.hi /\ a.mid = b.mid /\ a.lo < b.lo
FLeq(a, b) == a = b \/ FLess(a, b)
FAbs(a) == IF FLess(a, [hi |-> 0, mid |-> 0, lo |-> 0]) THEN FNeg(a) ELSE a
\* wiggle = 0.5 ** 40 = 4 * 2^-42.
wiggle == [hi |-> 0, mid |-> 4, lo |-> 0]
\* x * rtol for rtol = r.mid * 2^-42 (x.lo = 0):
\*   x.hi * 2^-1 * r.mid * 2^-42 = (x.hi * r.mid / 2) * 2^-42
\*   x.mid * 2^-42 * r.mid * 2^-42 = (x.mid * r.mid / 4) * 2^-82
FTimesTol(x, r) ==
    [hi |-> 0, mid |-> (x.hi * r.mid) \div 2, lo |-> (x.mid * r.mid) \div 4]

\* numpy.allclose on one pair of finite values: |a - b| <= atol + rtol * |b|,
\* with atol = 0.0.
IsClose(a, b, rtol) == FLeq(FAbs(FSub(a, b)), FTimesTol(FAbs(b), rtol))

(***************************************************************************)
(* Intersection records (_intersection_helpers.Intersection).              *)
(***************************************************************************)
Intersection(index_first, s, index_second, t) ==
    [index_first |-> index_first, s |-> s,
     index_second |-> index_second, t |-> t, interior_curve |-> "UNSET"]

same_intersection(intersection1, intersection2) ==
    IF intersection1.index_first # intersection2.index_first THEN FALSE
    ELSE IF intersection1.index_second # intersection2.index_second THEN FALSE
    ELSE /\ IsClose(intersection1.s, intersection2.s, wiggle)
         /\ IsClose(intersection1.t, intersection2.t, wiggle)

(***************************************************************************)
(* verify_duplicates(duplicates, uniques), one step per loop.  vd_pc is    *)
(* the position in the function: "uniq" before the loop over pairs of      *)
(* uniques, "dupes" in the loop over duplicates (vd_k of them examined),   *)
(* "returned" / "raised" once it has ended; "idle" when it is not running. *)
(***************************************************************************)
NoError == [msg |-> "none", arg |-> "none"]

\* itertools.combinations(uniques, 2): pairs of positions i < j, each passed
\* to same_intersection as (uniques[i], uniques[j]).
NonUnique(uniqs) ==
    \E i \in 1..Len(uniqs) : \E j \in (i + 1)..Len(uniqs) :
        same_intersection(uniqs[i], uniqs[j])

\* ``matches`` cut at the first match found.
Matches_first_only(dupe, uniqs) ==
    LET all == {index \in 1..Len(uniqs) : same_intersection(dupe, uniqs[index])}
    IN {index \in all : \A other \in all : index <= other}

\* The list ``matches`` built for one duplicate.
Matches(dupe, uniqs) ==
    {index \in 1..Len(uniqs) : same_intersection(dupe, uniqs[index])}

\* (uniq.s, uniq.t).count(0.0)
CountZeros(uniq) ==
    (IF uniq.s = Zero THEN 1 ELSE 0) + (IF uniq.t = Zero THEN 1 ELSE 0)

\* CountError that takes any corner for a count of 1.
CountError_any_corner(uniq, count) ==
    IF count = 1
    THEN IF CountZeros(uniq) = 0
         THEN [msg |-> "Count == 1 should be a single corner", arg |-> uniq]
         ELSE NoError
    ELSE IF count = 3
    THEN IF <<uniq.s, uniq.t>> # <<Zero, Zero>>
         THEN [msg |-> "Count == 3 should be a double corner", arg |-> uniq]
         ELSE NoError
    ELSE [msg |-> "Unexpected duplicate count", arg |-> count]

\* The error the last loop raises for one (index, count) item of the
\* counter, or NoError.
CountError(uniq, count) ==
    IF count = 1
    THEN IF CountZeros(uniq) # 1
         THEN [msg |-> "Count == 1 should be a single corner", arg |-> uniq]
         ELSE NoError
    ELSE IF count = 3
    THEN IF <<uniq.s, uniq.t>> # <<Zero, Zero>>
         THEN [msg |-> "Count == 3 should be a double corner", arg |-> uniq]
         ELSE NoError
    ELSE [msg |-> "Unexpected duplicate count", arg |-> count]

\* The call: binds the arguments and enters the function.
VD_Enter(dups, uniqs) ==
    /\ vd_pc' = "uniq"
    /\ dupes' = dups
    /\ uniques' = uniqs
    /\ vd_k' = 0
    /\ counter' = [index \in 1..Len(uniqs) |-> 0]
    /\ vd_error' = NoError

VD_CheckUniques ==
    /\ vd_pc = "uniq"
    /\ IF NonUnique(uniques)
       THEN /\ vd_pc' = "raised"
            /\ vd_error' = [msg |-> "Non-unique intersection", arg |-> "none"]
       ELSE /\ vd_pc' = "dupes"
            /\ UNCHANGED vd_error
    /\ UNCHANGED <<uniques, dupes, vd_k, counter>>

VD_ExamineDupe ==
    /\ vd_pc = "dupes"
    /\ vd_k < Len(dupes)
    /\ LET dupe == dupes[vd_k + 1]
           matches == Matches(dupe, uniques)
       IN IF Cardinality(matches) # 1
          THEN /\ vd_pc' = "raised"
               /\ vd_error' = [msg |-> "Duplicate not among uniques",
                               arg |-> dupe]
               /\ UNCHANGED <<vd_k, counter>>
          ELSE /\ counter' = [counter EXCEPT
                              ![CHOOSE m \in matches : TRUE] = @ + 1]
               /\ vd_k' = vd_k + 1
               /\ UNCHANGED <<vd_pc, vd_error>>
    /\ UNCHANGED <<uniques, dupes>>

\* The loop over the counter's items visits the entries (the uniques matched
\* at least once) in the dictionary's order, which the code does not fix:
\* the first failing item visited raises.
VD_CheckCounts ==
    /\ vd_pc = "dupes"
    /\ vd_k = Len(dupes)
    /\ LET failing == {index \in DOMAIN counter :
                         /\ counter[index] > 0
                         /\ CountError(uniques[index], counter[index]).msg # "none"}
       IN IF failing = {}
          THEN /\ vd_pc' = "returned"
               /\ UNCHANGED vd_error
          ELSE /\ vd_pc' = "raised"
               /\ \E index \in failing :
                    vd_error' = CountError(uniques[index], counter[index])
    /\ UNCHANGED <<uniques, dupes, vd_k, counter>>

VD_Idle ==
    /\ vd_pc = "idle" /\ uniques = <<>> /\ dupes = <<>> /\ vd_k = 0
    /\ counter = <<>> /\ vd_error = NoError

\* newton_refine and locate_point are not running.
NR_Idle ==
    /\ nr_pc = "idle" /\ nr_args = <<>> /\ surf = <<>> /\ jac_both = <<>>
    /\ nr_out = <<>> /\ nr_calls = <<>>

NS_Idle == ns_pc = "idle" /\ ns_args = <<>> /\ ns_out = <<>>

LP_Idle ==
    /\ lp_pc = "idle" /\ lp_args = <<>> /\ candidates = <<>> /\ lp_round = 0
    /\ lp_hits = <<>> /\ lp_st = <<>> /\ lp_calls = 0
    /\ lp_result = [kind |-> "unset", items |-> <<>>]

(***************************************************************************)
(* Collaborators of the intersector.  Their results are inputs of the      *)
(* model: every result the collaborator's contract allows is drawn.        *)
(***************************************************************************)
\* _geometric_intersection.BoxIntersectionType
INTERSECTION_T == "INTERSECTION"
BoxIntersectionType == {"INTERSECTION", "TANGENT", "DISJOINT"}
\* _surface_helpers.IntersectionClassification
IntersectionClassification == {"FIRST", "SECOND", "OPPOSED"}
\* The parameters a raw crossing may have: an edge's start, its middle, its
\* end along the first edge; the middle or the end along the second.
RawS == {Zero, Half, One}
RawT == {Half, One}
\* Python values: None, and a list.
None == [kind |-> "None", items |-> <<>>]
List(items) == [kind |-> "list", items |-> items]
Tuple(items) == [kind |-> "tuple", items |-> items]
\* What combine_intersections may return: (edge_infos, contained).
CombineResults ==
    { <<List(<<>>), "None">>,
      <<None, "True">>,
      <<List(<< <<0, 0, 1>>, <<4, 0, 1>> >>), "None">> }
\* compute_edge_nodes(nodes, degree): the three edges of surface k.
compute_edge_nodes(k) == << <<k, 0>>, <<k, 1>>, <<k, 2>> >>
Callees == {"bbox_intersect", "compute_edge_nodes", "all_intersections",
            "verify_duplicates", "combine_intersections"}

\* _surface_helpers.handle_ends: a parameter equal to 1.0 is moved to
\* parameter 0.0 of the next edge.
handle_ends(index1, s, index2, t) ==
    LET end1 == (s = One)
        end2 == (t = One)
    IN [edge_end |-> end1 \/ end2,
        args |-> << IF end1 THEN (index1 + 1) % 3 ELSE index1,
                    IF end1 THEN Zero ELSE s,
                    IF end2 THEN (index2 + 1) % 3 ELSE index2,
                    IF end2 THEN Zero ELSE t >>]

\* add_intersection that keeps the crossing's own arguments at an edge end.
add_intersection_raw_args(index1, s, index2, t, interior, bins) ==
    LET ends == handle_ends(index1, s, index2, t)
    IN IF ends.edge_end
       THEN [bins EXCEPT !.duplicates =
                Append(@, Intersection(index1, s, index2, t))]
       ELSE LET intersection ==
                    [Intersection(index1, s, index2, t)
                        EXCEPT !.interior_curve = interior]
                typed == [bins EXCEPT !.all_types = @ \cup {interior}]
            IN IF interior \in {"FIRST", "SECOND"}
               THEN [typed EXCEPT !.intersections = Append(@, intersection)]
               ELSE [typed EXCEPT !.unused = Append(@, intersection)]

\* add_intersection that drops the crossings it does not accept.
add_intersection_drop_unused(index1, s, index2, t, interior, bins) ==
    LET ends == handle_ends(index1, s, index2, t)
    IN IF ends.edge_end
       THEN [bins EXCEPT !.duplicates =
                Append(@, Intersection(ends.args[1], ends.args[2],
                                       ends.args[3], ends.args[4]))]
       ELSE LET intersection ==
                    [Intersection(index1, s, index2, t)
                        EXCEPT !.interior_curve = interior]
                typed == [bins EXCEPT !.all_types = @ \cup {interior}]
            IN IF interior \in {"FIRST", "SECOND"}
               THEN [typed EXCEPT !.intersections = Append(@, intersection)]
               ELSE typed

(***************************************************************************)
(* add_intersection.  bins holds the four collections the function         *)
(* appends to; interior is what classify_intersection returns for the      *)
(* crossing (it is called only when the crossing is not at an edge end).   *)
(***************************************************************************)
add_intersection(index1, s, index2, t, interior, bins) ==
    LET ends == handle_ends(index1, s, index2, t)
    IN IF ends.edge_end
       THEN [bins EXCEPT !.duplicates =
                Append(@, Intersection(ends.args[1], ends.args[2],
                                       ends.args[3], ends.args[4]))]
       ELSE LET intersection ==
                    [Intersection(index1, s, index2, t)
                        EXCEPT !.interior_curve = interior]
                typed == [bins EXCEPT !.all_types = @ \cup {interior}]
            IN IF interior = "FIRST"
               THEN [typed EXCEPT !.intersections = Append(@, intersection)]
               ELSE IF interior = "SECOND"
               THEN [typed EXCEPT !.intersections = Append(@, intersection)]
               ELSE [typed EXCEPT !.unused = Append(@, intersection)]

\* The inner loop of surface_intersections: add_intersection on each (s, t)
\* of st_vals, in order; kinds[k] is the classification of the k-th.
RECURSIVE AddAll(_, _, _, _, _, _)
AddAll(index1, index2, st_vals, kinds, k, bins) ==
    IF k > Len(st_vals) THEN bins
    ELSE AddAll(index1, index2, st_vals, kinds, k + 1,
                add_intersection(index1, st_vals[k][1], index2, st_vals[k][2],
                                 kinds[k], bins))

Bins == [duplicates |-> duplicates, intersections |-> intersections,
         unused |-> unused, all_types |-> all_types]

(***************************************************************************)
(* generic_intersect, and surface_intersections inside it.  gi_pc is the   *)
(* position: "entry", "edges", "scan" (pair of the 9 edge pairs done),     *)
(* "verifying" (inside verify_duplicates), "combine", then "returned" or   *)
(* "raised".                                                               *)
(***************************************************************************)
Call(f, n) == calls' = [calls EXCEPT ![f] = @ + n]

\* Line 583: the test on bbox_intersect's result.
BBoxRejects_disjoint_only(b) == b = "DISJOINT"

BBoxRejects(b) == b # INTERSECTION_T

\* Lines 582-584: the bounding-box test and the early return.
GI_BBox ==
    /\ gi_pc = "entry"
    /\ \E b \in BoxIntersectionType :
         /\ bbox_int' = b
         /\ IF BBoxRejects(b)
            THEN /\ result' = <<List(<<>>), "None", <<>> >>
                 /\ gi_pc' = "returned"
            ELSE /\ gi_pc' = "edges"
                 /\ UNCHANGED result
    /\ Call("bbox_intersect", 1)
    /\ UNCHANGED <<verify, edge_nodes1, edge_nodes2, pair, intersections,
                   duplicates, unused, all_types, pairs_called, raw_total,
                   combine_arg, combine_ret>>
    /\ UNCHANGED vd_vars

\* Lines 587-588, and the start of surface_intersections (535-538).
GI_ComputeEdges ==
    /\ gi_pc = "edges"
    /\ edge_nodes1' = compute_edge_nodes(1)
    /\ edge_nodes2' = compute_edge_nodes(2)
    /\ Call("compute_edge_nodes", 2)
    /\ all_types' = {}
    /\ intersections' = <<>>
    /\ duplicates' = <<>>
    /\ unused' = <<>>
    /\ pair' = 0
    /\ gi_pc' = "scan"
    /\ UNCHANGED <<verify, bbox_int, pairs_called, raw_total, combine_arg,
                   combine_ret, result>>
    /\ UNCHANGED vd_vars

\* One pass of the double loop of surface_intersections (539-545): the
\* primitive on edges (index1, index2), then add_intersection on each
\* crossing it returned.
GI_ScanPair ==
    /\ gi_pc = "scan"
    /\ pair < Len(edge_nodes1) * Len(edge_nodes2)
    /\ LET index1 == pair \div Len(edge_nodes2)
           index2 == pair % Len(edge_nodes2)
       IN \E st_vals \in SeqsUpTo(RawS \X RawT, MaxRaw - raw_total) :
          \E kinds \in [1..Len(st_vals) -> IntersectionClassification] :
            LET bins == AddAll(index1, index2, st_vals, kinds, 1, Bins)
            IN /\ intersections' = bins.intersections
               /\ duplicates' = bins.duplicates
               /\ unused' = bins.unused
               /\ all_types' = bins.all_types
               /\ raw_total' = raw_total + Len(st_vals)
               /\ pairs_called' = Append(pairs_called, <<index1, index2>>)
    /\ Call("all_intersections", 1)
    /\ pair' = pair + 1
    /\ UNCHANGED <<gi_pc, verify, bbox_int, edge_nodes1, edge_nodes2,
                   combine_arg, combine_ret, result>>
    /\ UNCHANGED vd_vars

\* Lines 547 and 595-596: surface_intersections returns; verify_duplicates
\* is called when verify is set.
GI_AfterScan ==
    /\ gi_pc = "scan"
    /\ pair = Len(edge_nodes1) * Len(edge_nodes2)
    /\ IF verify
       THEN /\ gi_pc' = "verifying"
            /\ Call("verify_duplicates", 1)
            /\ VD_Enter(duplicates, intersections \o unused)
       ELSE /\ gi_pc' = "combine"
            /\ UNCHANGED calls
            /\ UNCHANGED vd_vars
    /\ UNCHANGED <<verify, bbox_int, edge_nodes1, edge_nodes2, pair,
                   intersections, duplicates, unused, all_types,
                   pairs_called, raw_total, combine_arg, combine_ret, result>>

\* verify_duplicates returned: generic_intersect goes on.
GI_VerifyReturned ==
    /\ gi_pc = "verifying"
    /\ vd_pc = "returned"
    /\ gi_pc' = "combine"
    /\ vd_pc' = "idle"
    /\ UNCHANGED <<verify, bbox_int, edge_nodes1, edge_nodes2, pair,
                   intersections, duplicates, unused, all_types, calls,
                   pairs_called, raw_total, combine_arg, combine_ret, result>>
    /\ UNCHANGED <<uniques, dupes, vd_k, counter, vd_error>>

\* verify_duplicates raised: nothing catches the error, generic_intersect
\* ends with it.
GI_VerifyRaised ==
    /\ gi_pc = "verifying"
    /\ vd_pc = "raised"
    /\ gi_pc' = "raised"
    /\ vd_pc' = "idle"
    /\ UNCHANGED <<verify, bbox_int, edge_nodes1, edge_nodes2, pair,
                   intersections, duplicates, unused, all_types, calls,
                   pairs_called, raw_total, combine_arg, combine_ret, result>>
    /\ UNCHANGED <<uniques, dupes, vd_k, counter, vd_error>>

\* Lines 598-599: what combine_intersections is given of the bins.
CombineArg_with_unused == intersections \o unused

CombineArg == intersections

\* Lines 600-603: the result, from what combine_intersections returned.
ResultOf_none_only(edge_infos, contained) ==
    IF edge_infos = None
    THEN <<edge_infos, contained, <<>> >>
    ELSE <<edge_infos, contained, edge_nodes1 \o edge_nodes2>>

ResultOf(edge_infos, contained) ==
    IF edge_infos = None \/ edge_infos = List(<<>>)
    THEN <<edge_infos, contained, <<>> >>
    ELSE <<edge_infos, contained, edge_nodes1 \o edge_nodes2>>

\* Lines 598-603: the assembler and the shape of the result.
GI_Combine ==
    /\ gi_pc = "combine"
    /\ combine_arg' = CombineArg
    /\ Call("combine_intersections", 1)
    /\ \E r \in CombineResults :
         /\ combine_ret' = r
         /\ result' = ResultOf(r[1], r[2])
    /\ gi_pc' = "returned"
    /\ UNCHANGED <<verify, bbox_int, edge_nodes1, edge_nodes2, pair,
                   intersections, duplicates, unused, all_types,
                   pairs_called, raw_total>>
    /\ UNCHANGED vd_vars

Init ==
    /\ gi_pc = "entry"
    /\ verify \in BOOLEAN
    /\ bbox_int = "none"
    /\ edge_nodes1 = <<>> /\ edge_nodes2 = <<>> /\ pair = 0
    /\ intersections = <<>> /\ duplicates = <<>> /\ unused = <<>>
    /\ all_types = {}
    /\ calls = [f \in Callees |-> 0]
    /\ pairs_called = <<>>
    /\ raw_total = 0
    /\ combine_arg = "none"
    /\ combine_ret = "none"
    /\ result = "none"
    /\ VD_Idle /\ NR_Idle /\ LP_Idle /\ NS_Idle

Next ==
    \/ (GI_BBox /\ UNCHANGED <<nr_vars, lp_vars, ns_vars>>)
    \/ (GI_ComputeEdges /\ UNCHANGED <<nr_vars, lp_vars, ns_vars>>)
    \/ (GI_ScanPair /\ UNCHANGED <<nr_vars, lp_vars, ns_vars>>)
    \/ (GI_AfterScan /\ UNCHANGED <<nr_vars, lp_vars, ns_vars>>)
    \/ (VD_CheckUniques /\ UNCHANGED <<gi_vars, nr_vars, lp_vars, ns_vars>>)
    \/ (VD_ExamineDupe /\ UNCHANGED <<gi_vars, nr_vars, lp_vars, ns_vars>>)
    \/ (VD_CheckCounts /\ UNCHANGED <<gi_vars, nr_vars, lp_vars, ns_vars>>)
    \/ (GI_VerifyReturned /\ UNCHANGED <<nr_vars, lp_vars, ns_vars>>)
    \/ (GI_VerifyRaised /\ UNCHANGED <<nr_vars, lp_vars, ns_vars>>)
    \/ (GI_Combine /\ UNCHANGED <<nr_vars, lp_vars, ns_vars>>)

Spec == Init /\ [][Next]_vars

(***************************************************************************)
(* verify_duplicates on its own: the arguments are any two short lists     *)
(* over a corpus of intersections around a single corner (s = 1/2, t = 0), *)
(* a double corner (s = t = 0) and an interior crossing.                   *)
(***************************************************************************)
Corpus ==
    { Intersection(0, Zero, 0, Zero),
      Intersection(0, Half, 0, Zero),
      Intersection(0, F(1, -2), 0, Zero),
      Intersection(1, Zero, 0, Zero),
      Intersection(0, Half, 0, Half) }

GI_Idle ==
    /\ gi_pc = "idle" /\ verify = FALSE /\ bbox_int = "none"
    /\ edge_nodes1 = <<>> /\ edge_nodes2 = <<>> /\ pair = 0
    /\ intersections = <<>> /\ duplicates = <<>> /\ unused = <<>>
    /\ all_types = {} /\ calls = <<>> /\ pairs_called = <<>>
    /\ raw_total = 0 /\ combine_arg = "none" /\ combine_ret = "none"
    /\ result = "none"

InitVerify ==
    /\ GI_Idle /\ NR_Idle /\ LP_Idle /\ NS_Idle
    /\ vd_pc = "uniq"
    /\ uniques \in SeqsUpTo(Corpus, MaxUniques)
    /\ dupes \in SeqsUpTo(Corpus, MaxDupes)
    /\ vd_k = 0
    /\ counter = [index \in 1..Len(uniques) |-> 0]
    /\ vd_error = NoError

NextVerify ==
    \/ (VD_CheckUniques /\ UNCHANGED <<gi_vars, nr_vars, lp_vars, ns_vars>>)
    \/ (VD_ExamineDupe /\ UNCHANGED <<gi_vars, nr_vars, lp_vars, ns_vars>>)
    \/ (VD_CheckCounts /\ UNCHANGED <<gi_vars, nr_vars, lp_vars, ns_vars>>)

SpecVerify == InitVerify /\ [][NextVerify]_vars

(***************************************************************************)
(* Coordinates and surface parameters of newton_refine and locate_point.   *)
(* A float is the rational <<n, d>> it holds, in lowest terms with d > 0;  *)
(* d = 0 writes the non-finite values a division by 0.0 produces:          *)
(* <<1, 0>> is inf, <<-1, 0>> is -inf, <<0, 0>> is nan.  Sums, products    *)
(* and quotients are exact (no rounding).                                  *)
(***************************************************************************)
RECURSIVE GCD(_, _)
GCD(a, b) == IF b = 0 THEN a ELSE GCD(b, a % b)
IAbs(n) == IF n < 0 THEN -n ELSE n
Sign(n) == IF n > 0 THEN 1 ELSE IF n < 0 THEN -1 ELSE 0
Rat(n, d) ==
    IF d = 0 THEN <<Sign(n), 0>>
    ELSE LET g == GCD(IAbs(n), IAbs(d))
         IN <<Sign(d) * (n \div g), IAbs(d) \div g>>
R(n) == <<n, 1>>
NaN == <<0, 0>>
IsFinite(a) == a[2] # 0
RNeg(a) == <<-a[1], a[2]>>
RAdd(a, b) ==
    IF a[2] = 0 /\ b[2] = 0 THEN (IF a = b THEN a ELSE NaN)
    ELSE IF a[2] = 0 THEN a
    ELSE IF b[2] = 0 THEN b
    ELSE LET g == GCD(a[2], b[2])
             l == (a[2] \div g) * b[2]
         IN Rat(a[1] * (l \div a[2]) + b[1] * (l \div b[2]), l)
RSub(a, b) == RAdd(a, RNeg(b))
RMul(a, b) ==
    IF a[2] = 0 \/ b[2] = 0 THEN <<Sign(a[1]) * Sign(b[1]), 0>>
    ELSE LET g1 == GCD(IAbs(a[1]), b[2])
             g2 == GCD(IAbs(b[1]), a[2])
             h1 == IF g1 = 0 THEN 1 ELSE g1
             h2 == IF g2 = 0 THEN 1 ELSE g2
         IN Rat((a[1] \div h1) * (b[1] \div h2),
                (a[2] \div h2) * (b[2] \div h1))
RDiv(a, b) ==
    IF a[2] = 0 /\ b[2] = 0 THEN NaN
    ELSE IF b[2] = 0 THEN (IF a[2] = 0 THEN NaN ELSE R(0))
    ELSE IF b[1] = 0 THEN <<Sign(a[1]), 0>>
    ELSE RMul(a, <<Sign(b[1]) * b[2], IAbs(b[1])>>)
\* a <= b; a comparison with nan is false.
RLeq(a, b) ==
    IF a = NaN \/ b = NaN THEN FALSE
    ELSE IF a[2] = 0 \/ b[2] = 0
    THEN (IF a[2] = 0 /\ b[2] = 0 THEN a[1] <= b[1]
          ELSE IF a[2] = 0 THEN a[1] < 0 ELSE b[1] > 0)
    ELSE LET g == GCD(a[2], b[2])
         IN a[1] * (b[2] \div g) <= b[1] * (a[2] \div g)
\* Python's ==: nan is equal to nothing.
REq(a, b) == a # NaN /\ b # NaN /\ a = b

(***************************************************************************)
(* Collaborators from _surface_helpers.  nodes is the sequence of control  *)
(* points <<x, y>> in the library's order (for degree 2: the weights       *)
(* l1^2, 2 l1 l2, l2^2, 2 l1 l3, 2 l2 l3, l3^2).                            *)
(***************************************************************************)
\* evaluate_barycentric(nodes, degree, lambda1, lambda2, lambda3): one
\* coordinate c (1 or 2) of the point.
RECURSIVE RSumTo(_, _)
RSumTo(terms, n) ==
    IF n = 0 THEN R(0) ELSE RAdd(RSumTo(terms, n - 1), terms[n])
RSum(terms) == RSumTo(terms, Len(terms))

Weights(degree, l1, l2, l3) ==
    IF degree = 0 THEN << R(1) >>
    ELSE IF degree = 1 THEN <<l1, l2, l3>>
    ELSE << RMul(l1, l1), RMul(R(2), RMul(l1, l2)), RMul(l2, l2),
            RMul(R(2), RMul(l1, l3)), RMul(R(2), RMul(l2, l3)),
            RMul(l3, l3) >>

evaluate_barycentric(nodes, degree, l1, l2, l3) ==
    LET w == Weights(degree, l1, l2, l3)
    IN [c \in 1..Len(nodes[1]) |->
            RSum([k \in 1..Len(nodes) |-> RMul(w[k], nodes[k][c])])]

\* jacobian_both(nodes, degree, 2): the nodes of the surface, of degree one
\* less, whose value is (B_s.x, B_s.y, B_t.x, B_t.y).
Diff(nodes, degree, k, m) ==
    << RMul(R(degree), RSub(nodes[k][1], nodes[m][1])),
       RMul(R(degree), RSub(nodes[k][2], nodes[m][2])) >>

jacobian_both(nodes, degree) ==
    IF degree = 1
    THEN << Diff(nodes, 1, 2, 1) \o Diff(nodes, 1, 3, 1) >>
    ELSE << Diff(nodes, 2, 2, 1) \o Diff(nodes, 2, 4, 1),
            Diff(nodes, 2, 3, 2) \o Diff(nodes, 2, 5, 2),
            Diff(nodes, 2, 5, 4) \o Diff(nodes, 2, 6, 4) >>

(***************************************************************************)
(* newton_refine_solve and newton_refine.                                  *)
(***************************************************************************)
newton_refine_solve_transposed(jac, x_val, surf_x, y_val, surf_y) ==
    LET a_val == jac[1]
        b_val == jac[3]
        c_val == jac[2]
        d_val == jac[4]
        e_val == RSub(x_val, surf_x)
        f_val == RSub(y_val, surf_y)
        denom == RSub(RMul(a_val, d_val), RMul(b_val, c_val))
        delta_s == RDiv(RSub(RMul(d_val, e_val), RMul(c_val, f_val)), denom)
        delta_t == RDiv(RSub(RMul(a_val, f_val), RMul(b_val, e_val)), denom)
    IN <<delta_s, delta_t>>

newton_refine_solve(jac, x_val, surf_x, y_val, surf_y) ==
    LET a_val == jac[1]
        b_val == jac[2]
        c_val == jac[3]
        d_val == jac[4]
        e_val == RSub(x_val, surf_x)
        f_val == RSub(y_val, surf_y)
        denom == RSub(RMul(a_val, d_val), RMul(b_val, c_val))
        delta_s == RDiv(RSub(RMul(d_val, e_val), RMul(c_val, f_val)), denom)
        delta_t == RDiv(RSub(RMul(a_val, f_val), RMul(b_val, e_val)), denom)
    IN <<delta_s, delta_t>>

\* Lines 198-200: the surface at (1 - s - t, s, t).
SurfaceAt(nodes, degree, s, t) ==
    evaluate_barycentric(nodes, degree, RSub(RSub(R(1), s), t), s, t)

\* Line 201: no refinement is needed.
AtTarget(surf_xy, x_val, y_val) ==
    REq(surf_xy[1], x_val) /\ REq(surf_xy[2], y_val)

\* Lines 206-210: the Jacobian, evaluated at the degree one less.
JacobianAt(nodes, degree, s, t) ==
    evaluate_barycentric(jacobian_both(nodes, degree), degree - 1,
                         RSub(RSub(R(1), s), t), s, t)

\* Lines 214-216: one Newton step.
NewtonStep_minus(jac, surf_xy, x_val, y_val, s, t) ==
    LET delta == newton_refine_solve(jac, x_val, surf_xy[1], y_val, surf_xy[2])
    IN <<RSub(s, delta[1]), RSub(t, delta[2])>>

NewtonStep(jac, surf_xy, x_val, y_val, s, t) ==
    LET delta == newton_refine_solve(jac, x_val, surf_xy[1], y_val, surf_xy[2])
    IN <<RAdd(s, delta[1]), RAdd(t, delta[2])>>

\* newton_refine as one function of its arguments.
newton_refine(nodes, degree, x_val, y_val, s, t) ==
    LET surf_xy == SurfaceAt(nodes, degree, s, t)
    IN IF AtTarget(surf_xy, x_val, y_val) THEN <<s, t>>
       ELSE NewtonStep(JacobianAt(nodes, degree, s, t), surf_xy,
                       x_val, y_val, s, t)

(***************************************************************************)
(* newton_refine, one step per call it makes.  nr_pc is the position:      *)
(* "entry", "evaluated" (surf_x, surf_y known), "jacobian" (jac_both       *)
(* known), "done".                                                         *)
(***************************************************************************)
NR_Callees == {"evaluate_barycentric", "jacobian_both", "newton_refine_solve"}

NR_Evaluate ==
    /\ nr_pc = "entry"
    /\ surf' = SurfaceAt(nr_args.nodes, nr_args.degree, nr_args.s, nr_args.t)
    /\ nr_calls' = [nr_calls EXCEPT !["evaluate_barycentric"] = @ + 1]
    /\ nr_pc' = "evaluated"
    /\ UNCHANGED <<nr_args, jac_both, nr_out>>

NR_ReturnUnchanged ==
    /\ nr_pc = "evaluated"
    /\ AtTarget(surf, nr_args.x_val, nr_args.y_val)
    /\ nr_out' = <<nr_args.s, nr_args.t>>
    /\ nr_pc' = "done"
    /\ UNCHANGED <<nr_args, surf, jac_both, nr_calls>>

NR_Jacobian ==
    /\ nr_pc = "evaluated"
    /\ ~AtTarget(surf, nr_args.x_val, nr_args.y_val)
    /\ jac_both' = JacobianAt(nr_args.nodes, nr_args.degree,
                              nr_args.s, nr_args.t)
    /\ nr_calls' = [nr_calls EXCEPT !["jacobian_both"] = @ + 1,
                                    !["evaluate_barycentric"] = @ + 1]
    /\ nr_pc' = "jacobian"
    /\ UNCHANGED <<nr_args, surf, nr_out>>

NR_Solve ==
    /\ nr_pc = "jacobian"
    /\ nr_out' = NewtonStep(jac_both, surf, nr_args.x_val, nr_args.y_val,
                            nr_args.s, nr_args.t)
    /\ nr_calls' = [nr_calls EXCEPT !["newton_refine_solve"] = @ + 1]
    /\ nr_pc' = "done"
    /\ UNCHANGED <<nr_args, surf, jac_both>>

\* The surfaces newton_refine and locate_point are run on: the quadratic
\* surface of newton_refine's documentation, the unit triangle, and a
\* degenerate linear surface (its three nodes on one line).
Pt(x, y) == <<R(x), R(y)>>
QuadraticNodes == <<Pt(0, 0), Pt(1, 0), Pt(2, 0), Pt(2, 1), Pt(2, 2), Pt(0, 2)>>
UnitNodes == <<Pt(0, 0), Pt(1, 0), Pt(0, 1)>>
FlatNodes == <<Pt(0, 0), Pt(1, 0), Pt(2, 0)>>
Surfaces == { [nodes |-> QuadraticNodes, degree |-> 2],
              [nodes |-> UnitNodes, degree |-> 1],
              [nodes |-> FlatNodes, degree |-> 1] }
\* The parameter pairs (i / Grid, j / Grid) of the unit triangle.
Grid == 4
GridValues == {Rat(i, Grid) : i \in 0..Grid}
GridParams ==
    {st \in GridValues \X GridValues : RLeq(RAdd(st[1], st[2]), R(1))}

InitNewton ==
    /\ GI_Idle /\ VD_Idle /\ LP_Idle /\ NS_Idle
    /\ nr_pc = "entry"
    /\ \E surface \in Surfaces : \E st \in GridParams : \E at \in GridParams :
         LET target == SurfaceAt(surface.nodes, surface.degree, at[1], at[2])
         IN nr_args = [nodes |-> surface.nodes, degree |-> surface.degree,
                       x_val |-> target[1], y_val |-> target[2],
                       s |-> st[1], t |-> st[2]]
    /\ surf = <<>>
    /\ jac_both = <<>>
    /\ nr_out = <<>>
    /\ nr_calls = [f \in NR_Callees |-> 0]

NextNewton ==
    \/ (NR_Evaluate /\ UNCHANGED <<gi_vars, vd_vars, lp_vars, ns_vars>>)
    \/ (NR_ReturnUnchanged /\ UNCHANGED <<gi_vars, vd_vars, lp_vars, ns_vars>>)
    \/ (NR_Jacobian /\ UNCHANGED <<gi_vars, vd_vars, lp_vars, ns_vars>>)
    \/ (NR_Solve /\ UNCHANGED <<gi_vars, vd_vars, lp_vars, ns_vars>>)

SpecNewton == InitNewton /\ [][NextNewton]_vars

(***************************************************************************)
(* newton_refine_solve on its own: the entries of jac_both and the values  *)
(* x_val, y_val are integers of size at most MaxCoef, surf_x and surf_y    *)
(* are 0 or 1.                                                             *)
(***************************************************************************)
MaxCoef == 2
Coefs == (-MaxCoef)..MaxCoef

InitSolve ==
    /\ GI_Idle /\ VD_Idle /\ NR_Idle /\ LP_Idle
    /\ ns_pc = "entry"
    /\ \E a_val, b_val, c_val, d_val, x_val, y_val \in Coefs :
         \E surf_x, surf_y \in 0..1 :
            ns_args = [jac_both |-> <<R(a_val), R(b_val), R(c_val), R(d_val)>>,
                       x_val |-> R(x_val), surf_x |-> R(surf_x),
                       y_val |-> R(y_val), surf_y |-> R(surf_y)]
    /\ ns_out = <<>>

NS_Solve ==
    /\ ns_pc = "entry"
    /\ ns_out' = newton_refine_solve(ns_args.jac_both, ns_args.x_val,
                     ns_args.surf_x, ns_args.y_val, ns_args.surf_y)
    /\ ns_pc' = "done"
    /\ UNCHANGED ns_args

NextSolve == NS_Solve /\ UNCHANGED <<gi_vars, vd_vars, nr_vars, lp_vars>>

SpecSolve == InitSolve /\ [][NextSolve]_vars

(***************************************************************************)
(* locate_point and its helpers.  A candidate is the tuple                 *)
(* <<centroid_x, centroid_y, width, candidate_nodes>> of the source (the   *)
(* centroid is kept tripled).                                              *)
(***************************************************************************)
MAX_LOCATE_SUBDIVISIONS == 20

Mid(p, q) == << RDiv(RAdd(p[1], q[1]), R(2)), RDiv(RAdd(p[2], q[2]), R(2)) >>

\* _surface_helpers.subdivide_nodes for a linear surface: the corner
\* sub-surfaces A, C, D and the middle one B, each with its own nodes.
subdivide_nodes(nodes, degree) ==
    LET m12 == Mid(nodes[1], nodes[2])
        m13 == Mid(nodes[1], nodes[3])
        m23 == Mid(nodes[2], nodes[3])
    IN << <<nodes[1], m12, m13>>,
          <<m23, m13, m12>>,
          <<m12, nodes[2], m23>>,
          <<m13, m23, nodes[3]>> >>

\* _helpers.contains_nd: the point lies in the bounding box of the nodes.
contains_nd(nodes, point) ==
    \A c \in 1..2 :
        /\ \E k \in 1..Len(nodes) : RLeq(nodes[k][c], point[c])
        /\ \E k \in 1..Len(nodes) : RLeq(point[c], nodes[k][c])

\* _helpers.vector_close(vec1, vec2, eps=LOCATE_EPS): the distance of the
\* two vectors is at most 2^-47 times the smaller of their lengths.  Every
\* finite value here is a ratio of two integers below 2^31, so a distance
\* that is not zero is more than 2^-47 times either length: the vectors
\* are close exactly when they are finite and equal.
vector_close(vec1, vec2) ==
    /\ \A c \in 1..2 : IsFinite(vec1[c]) /\ IsFinite(vec2[c])
    /\ vec1 = vec2

update_locate_candidates_unflipped(candidate, next_candidates, x_val, y_val, degree) ==
    LET centroid_x == candidate[1]
        centroid_y == candidate[2]
        width == candidate[3]
        candidate_nodes == candidate[4]
    IN IF ~contains_nd(candidate_nodes, <<x_val, y_val>>)
       THEN next_candidates
       ELSE LET sub == subdivide_nodes(candidate_nodes, degree)
                half_width == RMul(Rat(1, 2), width)
            IN next_candidates \o
               << << RSub(centroid_x, half_width),
                     RSub(centroid_y, half_width), half_width, sub[1] >>,
                  << centroid_x, centroid_y, half_width, sub[2] >>,
                  << RAdd(centroid_x, width),
                     RSub(centroid_y, half_width), half_width, sub[3] >>,
                  << RSub(centroid_x, half_width),
                     RAdd(centroid_y, width), half_width, sub[4] >> >>

\* update_locate_candidates: next_candidates after the call.
update_locate_candidates(candidate, next_candidates, x_val, y_val, degree) ==
    LET centroid_x == candidate[1]
        centroid_y == candidate[2]
        width == candidate[3]
        candidate_nodes == candidate[4]
    IN IF ~contains_nd(candidate_nodes, <<x_val, y_val>>)
       THEN next_candidates
       ELSE LET sub == subdivide_nodes(candidate_nodes, degree)
                half_width == RMul(Rat(1, 2), width)
            IN next_candidates \o
               << << RSub(centroid_x, half_width),
                     RSub(centroid_y, half_width), half_width, sub[1] >>,
                  << centroid_x, centroid_y, RNeg(half_width), sub[2] >>,
                  << RAdd(centroid_x, width),
                     RSub(centroid_y, half_width), half_width, sub[3] >>,
                  << RSub(centroid_x, half_width),
                     RAdd(centroid_y, width), half_width, sub[4] >> >>

\* mean_centroid: the sum of the tripled centroids over 3 * len(candidates).
mean_centroid(cands) ==
    LET sum_x == RSum([k \in 1..Len(cands) |-> cands[k][1]])
        sum_y == RSum([k \in 1..Len(cands) |-> cands[k][2]])
        denom == R(3 * Len(cands))
    IN << RDiv(sum_x, denom), RDiv(sum_y, denom) >>

\* The inner loop of locate_point: every candidate, in order, is handed to
\* update_locate_candidates, which extends next_candidates by the four
\* children of a candidate that contains the point and by nothing otherwise.
NextCandidates(cands, x_val, y_val, degree) ==
    LET Extension(k) ==
            update_locate_candidates(cands[k], <<>>, x_val, y_val, degree)
        kept == SelectSeq([k \in 1..Len(cands) |-> k],
                          LAMBDA k : Extension(k) # <<>>)
    IN [i \in 1..(4 * Len(kept)) |->
            Extension(kept[((i - 1) \div 4) + 1])[((i - 1) % 4) + 1]]

\* The number of passes of the outer loop.
LocateRounds_short == MAX_LOCATE_SUBDIVISIONS

LocateRounds == MAX_LOCATE_SUBDIVISIONS + 1

\* The candidates of the current round whose nodes contain the point.
Containing ==
    {k \in 1..Len(candidates) :
        contains_nd(candidates[k][4], <<lp_args.x_val, lp_args.y_val>>)}

\* One pass of the outer loop.  lp_hits records, round by round, how many
\* candidates contained the point.
LP_Round ==
    /\ lp_pc = "loop"
    /\ lp_round < LocateRounds
    /\ candidates' = NextCandidates(candidates, lp_args.x_val,
                                    lp_args.y_val, lp_args.degree)
    /\ lp_round' = lp_round + 1
    /\ lp_hits' = Append(lp_hits, Cardinality(Containing))
    /\ UNCHANGED <<lp_pc, lp_args, lp_st, lp_calls, lp_result>>

\* No candidate is left: return None.
LP_ReturnNone ==
    /\ lp_pc = "loop"
    /\ lp_round >= LocateRounds
    /\ candidates = <<>>
    /\ lp_result' = None
    /\ lp_pc' = "done"
    /\ UNCHANGED <<lp_args, candidates, lp_round, lp_hits, lp_st, lp_calls>>

\* mean_centroid and the first newton_refine.
LP_Refine ==
    /\ lp_pc = "loop"
    /\ lp_round >= LocateRounds
    /\ candidates # <<>>
    /\ LET approx == mean_centroid(candidates)
       IN lp_st' = newton_refine(lp_args.nodes, lp_args.degree, lp_args.x_val,
                                 lp_args.y_val, approx[1], approx[2])
    /\ lp_calls' = lp_calls + 1
    /\ lp_pc' = "refined"
    /\ UNCHANGED <<lp_args, candidates, lp_round, lp_hits, lp_result>>

\* Line 366: the refined point is not within LOCATE_EPS of the target.
NotClose_never(actual, expected) == FALSE

NotClose(actual, expected) == ~vector_close(actual, expected)

\* The check of the refined point, a second newton_refine when it is not
\* close enough, and the return of (s, t).
LP_Return ==
    /\ lp_pc = "refined"
    /\ LET actual == SurfaceAt(lp_args.nodes, lp_args.degree,
                               lp_st[1], lp_st[2])
           expected == <<lp_args.x_val, lp_args.y_val>>
       IN IF NotClose(actual, expected)
          THEN /\ lp_st' = newton_refine(lp_args.nodes, lp_args.degree,
                                lp_args.x_val, lp_args.y_val,
                                lp_st[1], lp_st[2])
               /\ lp_calls' = lp_calls + 1
          ELSE UNCHANGED <<lp_st, lp_calls>>
    /\ lp_result' = Tuple(lp_st')
    /\ lp_pc' = "done"
    /\ UNCHANGED <<lp_args, candidates, lp_round, lp_hits>>

\* The linear surfaces locate_point is run on, and the points it looks
\* for: the multiples of 1/4 up to TargetSteps / 4 in each coordinate.  On
\* the degenerate surface (all of it on the line y = 0, its Jacobian
\* singular) the only point of that line looked for is the corner (0, 0),
\* the one such point a single parameter pair maps to.
SkewNodes == <<Pt(0, 0), Pt(2, 0), Pt(1, 1)>>
LocateSurfaces == { [nodes |-> UnitNodes, degree |-> 1],
                    [nodes |-> SkewNodes, degree |-> 1],
                    [nodes |-> FlatNodes, degree |-> 1] }
TargetSteps == 5
LocateTargets == {<<Rat(i, 4), Rat(j, 4)>> : i, j \in 0..TargetSteps}
TargetsOf(surface) ==
    IF surface.nodes = FlatNodes
    THEN {target \in LocateTargets : target[2] = R(0) => target[1] = R(0)}
    ELSE LocateTargets

InitLocate ==
    /\ GI_Idle /\ VD_Idle /\ NR_Idle /\ NS_Idle
    /\ lp_pc = "loop"
    /\ \E surface \in LocateSurfaces : \E target \in TargetsOf(surface) :
         /\ lp_args = [nodes |-> surface.nodes, degree |-> surface.degree,
                       x_val |-> target[1], y_val |-> target[2]]
         /\ candidates = << <<R(1), R(1), R(1), surface.nodes>> >>
    /\ lp_round = 0
    /\ lp_hits = <<>>
    /\ lp_st = <<>>
    /\ lp_calls = 0
    /\ lp_result = [kind |-> "unset", items |-> <<>>]

NextLocate ==
    \/ (LP_Round /\ UNCHANGED <<gi_vars, vd_vars, nr_vars, ns_vars>>)
    \/ (LP_ReturnNone /\ UNCHANGED <<gi_vars, vd_vars, nr_vars, ns_vars>>)
    \/ (LP_Refine /\ UNCHANGED <<gi_vars, vd_vars, nr_vars, ns_vars>>)
    \/ (LP_Return /\ UNCHANGED <<gi_vars, vd_vars, nr_vars, ns_vars>>)

SpecLocate == InitLocate /\ [][NextLocate]_vars

(***************************************************************************)
(* Properties of generic_intersect (checked under Spec).                   *)
(***************************************************************************)
IsPrefix(a, b) == Len(a) <= Len(b) /\ SubSeq(b, 1, Len(a)) = a

AllPairs ==
    << <<0, 0>>, <<0, 1>>, <<0, 2>>, <<1, 0>>, <<1, 1>>, <<1, 2>>,
       <<2, 0>>, <<2, 1>>, <<2, 2>> >>

\* C1: whenever the bounding-box test returns anything other than
\* INTERSECTION, generic_intersect has returned ([], None, ()) and has called
\* none of compute_edge_nodes, the curve-curve primitive, verify_duplicates
\* and combine_intersections, whatever verify is.
C1_BBoxRejectReturnsEmpty ==
    bbox_int \in BoxIntersectionType \ {INTERSECTION_T} =>
        /\ gi_pc = "returned"
        /\ result = <<List(<<>>), "None", <<>> >>
        /\ calls["compute_edge_nodes"] = 0
        /\ calls["all_intersections"] = 0
        /\ calls["verify_duplicates"] = 0
        /\ calls["combine_intersections"] = 0
        /\ pairs_called = <<>>
        /\ vd_pc = "idle"

C1_Witness ==
    /\ bbox_int = "TANGENT"
    /\ verify
    /\ gi_pc = "returned"

\* C2: surface_intersections calls the primitive once for each of the 9
\* ordered edge pairs, every raw crossing is appended to exactly one of the
\* three bins, no entry is removed or moved (each bin only grows at its
\* end), and the bin sizes sum to the number of raw crossings returned.
C2_BinsState ==
    /\ Len(intersections) + Len(duplicates) + Len(unused) = raw_total
    /\ calls["all_intersections"] = Len(pairs_called)
    /\ pairs_called = SubSeq(AllPairs, 1, Len(pairs_called))
    /\ gi_pc \in {"verifying", "combine", "raised"} => pairs_called = AllPairs
    /\ (gi_pc = "returned" /\ bbox_int = INTERSECTION_T) =>
            pairs_called = AllPairs

C2_BinsStep ==
    /\ IsPrefix(intersections, intersections')
    /\ IsPrefix(duplicates, duplicates')
    /\ IsPrefix(unused, unused')
    /\ (Len(intersections') - Len(intersections))
         + (Len(duplicates') - Len(duplicates))
         + (Len(unused') - Len(unused)) = raw_total' - raw_total

C2_EveryCrossingInOneBin == [](C2_BinsState) /\ [][C2_BinsStep]_vars

C2_Witness ==
    /\ gi_pc = "returned"
    /\ raw_total = 2
    /\ Len(duplicates) = 1
    /\ Len(unused) = 1
    /\ calls["all_intersections"] = 9

\* C3: every Intersection in the accepted bin is classified FIRST or SECOND,
\* every crossing classified as anything else is in the unused bin (and only
\* such crossings are), and every Intersection in the duplicates bin has
\* s = 0.0 or t = 0.0.
C3_BinContents ==
    /\ \A k \in 1..Len(intersections) :
         intersections[k].interior_curve \in {"FIRST", "SECOND"}
    /\ \A k \in 1..Len(unused) :
         unused[k].interior_curve
            \in IntersectionClassification \ {"FIRST", "SECOND"}
    /\ \A c \in all_types \ {"FIRST", "SECOND"} :
         \E k \in 1..Len(unused) : unused[k].interior_curve = c
    /\ \A k \in 1..Len(duplicates) :
         duplicates[k].s = Zero \/ duplicates[k].t = Zero

C3_Witness ==
    /\ Len(intersections) = 1
    /\ Len(duplicates) = 1
    /\ duplicates[1].s = Zero
    /\ duplicates[1].t # Zero
    /\ "SECOND" \in all_types

\* C7: with verify set, verify_duplicates runs once, on (duplicates,
\* accepted + unused), after all 9 pairs were scanned and before
\* combine_intersections; if it raises, generic_intersect ends with the
\* error and combine_intersections is never called.  With verify unset,
\* verify_duplicates is never called.  combine_intersections is given the
\* accepted bin only.
C7_VerifyOrdering ==
    /\ calls["verify_duplicates"] <= 1
    /\ ~verify => calls["verify_duplicates"] = 0 /\ vd_pc = "idle"
                    /\ gi_pc # "raised"
    /\ calls["verify_duplicates"] = 1 =>
         /\ pairs_called = AllPairs
         /\ dupes = duplicates
         /\ uniques = intersections \o unused
    /\ gi_pc = "verifying" => calls["combine_intersections"] = 0
    /\ vd_pc # "idle" => gi_pc = "verifying"
    /\ gi_pc = "raised" =>
         /\ vd_error.msg # "none"
         /\ calls["combine_intersections"] = 0
         /\ result = "none"
    /\ calls["combine_intersections"] = 1 =>
         /\ combine_arg = intersections
         /\ vd_error.msg = "none"
         /\ calls["verify_duplicates"] = (IF verify THEN 1 ELSE 0)
    /\ vd_error.msg # "none" => gi_pc \in {"verifying", "raised"}

\* verify unset, the bins would fail the verification (the duplicate matches
\* no unique), and the accepted bin went to combine_intersections all the same.
C7_Witness ==
    /\ ~verify
    /\ gi_pc = "returned"
    /\ calls["combine_intersections"] = 1
    /\ Len(duplicates) = 1
    /\ Len(unused) = 1
    /\ Matches(duplicates[1], intersections \o unused) = {}
    /\ combine_arg = <<>>

\* C8: once the assembler has run, the first two components of the result
\* are what combine_intersections returned; the third is the empty tuple
\* when edge_infos is None or the empty list, and otherwise the three edges
\* of the first surface followed by the three of the second.
C8_ResultShape ==
    calls["combine_intersections"] = 1 =>
        /\ gi_pc = "returned"
        /\ combine_ret \in CombineResults
        /\ result[1] = combine_ret[1]
        /\ result[2] = combine_ret[2]
        /\ IF combine_ret[1].kind = "None" \/ combine_ret[1].items = <<>>
           THEN result[3] = <<>>
           ELSE result[3] = << <<1, 0>>, <<1, 1>>, <<1, 2>>,
                               <<2, 0>>, <<2, 1>>, <<2, 2>> >>

C8_Witness ==
    /\ gi_pc = "returned"
    /\ calls["combine_intersections"] = 1
    /\ result[1].kind = "list"
    /\ Len(result[3]) = 6

(***************************************************************************)
(* Properties of verify_duplicates (checked under SpecVerify).             *)
(***************************************************************************)
\* The number of uniques the duplicate d is the same as.
NMatch(d) ==
    Cardinality({i \in 1..Len(uniques) : same_intersection(d, uniques[i])})
\* The number of duplicates that are the same as the i-th unique, among the
\* first n.
NDupes(i, n) ==
    Cardinality({k \in 1..n : same_intersection(dupes[k], uniques[i])})
VD_Ended == vd_pc \in {"returned", "raised"}

\* C4: every duplicate examined without an error matched exactly one
\* unique and added one to the count of that unique and of no other; a
\* duplicate that matches no unique, or more than one, makes
\* verify_duplicates raise ValueError('Duplicate not among uniques', dupe).
C4_DuplicateMatchesOne ==
    /\ \A k \in 1..vd_k : NMatch(dupes[k]) = 1
    /\ \A i \in DOMAIN counter : counter[i] = NDupes(i, vd_k)
    /\ vd_error.msg = "Duplicate not among uniques" =>
         /\ vd_pc = "raised"
         /\ vd_k < Len(dupes)
         /\ vd_error.arg = dupes[vd_k + 1]
         /\ NMatch(dupes[vd_k + 1]) # 1
    /\ ( /\ VD_Ended
         /\ vd_error.msg # "Non-unique intersection"
         /\ \E k \in 1..Len(dupes) : NMatch(dupes[k]) # 1 ) =>
         vd_error.msg = "Duplicate not among uniques"

C4_Witness ==
    /\ vd_pc = "raised"
    /\ vd_error.msg = "Duplicate not among uniques"
    /\ vd_k = 1
    /\ NMatch(dupes[2]) = 2

\* C5: once every duplicate has matched one unique, verify_duplicates
\* returns if and only if every unique matched by a duplicate has count 1
\* and exactly one of s, t equal to 0.0, or count 3 and s = t = 0.0, and it
\* raises otherwise; a unique matched by no duplicate is not constrained.
CornerOK(i) ==
    LET n == NDupes(i, Len(dupes))
    IN \/ n = 0
       \/ n = 1 /\ ((uniques[i].s = Zero) # (uniques[i].t = Zero))
       \/ n = 3 /\ uniques[i].s = Zero /\ uniques[i].t = Zero

C5_CornerCounts ==
    ( /\ VD_Ended
      /\ vd_error.msg \notin {"Non-unique intersection",
                              "Duplicate not among uniques"} ) =>
        /\ vd_k = Len(dupes)
        /\ (vd_pc = "returned") <=> (\A i \in 1..Len(uniques) : CornerOK(i))
        /\ vd_pc = "returned" => vd_error.msg = "none"
        /\ vd_pc = "raised" =>
             /\ vd_error.msg \in {"Count == 1 should be a single corner",
                                  "Count == 3 should be a double corner",
                                  "Unexpected duplicate count"}
             /\ \E i \in 1..Len(uniques) :
                  /\ ~CornerOK(i)
                  /\ (vd_error.msg = "Unexpected duplicate count") <=>
                        (NDupes(i, Len(dupes)) \notin {1, 3})
                  /\ (vd_error.msg = "Count == 1 should be a single corner")
                        <=> (NDupes(i, Len(dupes)) = 1)

C5_Witness ==
    /\ vd_pc = "returned"
    /\ Len(uniques) = 2
    /\ NDupes(1, Len(dupes)) = 3
    /\ NDupes(2, Len(dupes)) = 0
    /\ uniques[2].s # Zero /\ uniques[2].t # Zero

\* C6 as stated: two entries of uniques at distinct positions that are the
\* same, in whichever order they stand, make verify_duplicates raise
\* ValueError('Non-unique intersection') before any duplicate is examined.
C6_NonUniqueAnyOrder ==
    ( /\ vd_pc # "uniq"
      /\ \E i, j \in 1..Len(uniques) :
           i # j /\ same_intersection(uniques[i], uniques[j]) ) =>
        /\ vd_pc = "raised"
        /\ vd_error.msg = "Non-unique intersection"
        /\ vd_k = 0
        /\ \A i \in DOMAIN counter : counter[i] = 0

(***************************************************************************)
(* Properties of newton_refine, checked under SpecNewton.                  *)
(***************************************************************************)
\* The partial derivatives of the surface at (s, t), as central differences
\* (exact for surfaces of degree at most two): <<x_s, y_s, x_t, y_t>>.
PartialsAt(nodes, degree, s, t) ==
    LET s_plus  == SurfaceAt(nodes, degree, RAdd(s, R(1)), t)
        s_minus == SurfaceAt(nodes, degree, RSub(s, R(1)), t)
        t_plus  == SurfaceAt(nodes, degree, s, RAdd(t, R(1)))
        t_minus == SurfaceAt(nodes, degree, s, RSub(t, R(1)))
    IN << RDiv(RSub(s_plus[1], s_minus[1]), R(2)),
          RDiv(RSub(s_plus[2], s_minus[2]), R(2)),
          RDiv(RSub(t_plus[1], t_minus[1]), R(2)),
          RDiv(RSub(t_plus[2], t_minus[2]), R(2)) >>

DocExample ==
    [nodes |-> QuadraticNodes, degree |-> 2, x_val |-> Rat(5, 4),
     y_val |-> Rat(5, 4), s |-> Rat(1, 2), t |-> Rat(1, 4)]

\* C10: a finished call of newton_refine has taken at most one Newton step.
\* If the surface at (1 - s - t, s, t) equals (x_val, y_val) in both
\* coordinates, it returned (s, t) unchanged and computed no Jacobian;
\* otherwise it called jacobian_both and newton_refine_solve once each, the
\* Jacobian is the surface's derivative at (s, t), and the returned pair is
\* (s + delta_s, t + delta_t) where (delta_s, delta_t) solves the 2 x 2
\* system J * delta = (x_val - surf_x, y_val - surf_y) (both components
\* are non-finite when J is singular).
C10_OneNewtonStep ==
    nr_pc = "done" =>
        LET a == nr_args
            b == SurfaceAt(a.nodes, a.degree, a.s, a.t)
            j == PartialsAt(a.nodes, a.degree, a.s, a.t)
            e_val == RSub(a.x_val, b[1])
            f_val == RSub(a.y_val, b[2])
            denom == RSub(RMul(j[1], j[4]), RMul(j[2], j[3]))
        IN /\ surf = b
           /\ IF b[1] = a.x_val /\ b[2] = a.y_val
              THEN /\ nr_out = <<a.s, a.t>>
                   /\ jac_both = <<>>
                   /\ nr_calls = [f \in NR_Callees |->
                         IF f = "evaluate_barycentric" THEN 1 ELSE 0]
              ELSE /\ nr_calls = [f \in NR_Callees |->
                         IF f = "evaluate_barycentric" THEN 2 ELSE 1]
                   /\ jac_both = j
                   /\ IF denom = R(0)
                      THEN ~IsFinite(nr_out[1]) /\ ~IsFinite(nr_out[2])
                      ELSE LET delta_s == RSub(nr_out[1], a.s)
                               delta_t == RSub(nr_out[2], a.t)
                           IN /\ RAdd(RMul(j[1], delta_s),
                                      RMul(j[3], delta_t)) = e_val
                              /\ RAdd(RMul(j[2], delta_s),
                                      RMul(j[4], delta_t)) = f_val
           /\ a = DocExample => nr_out = <<Rat(3, 16), Rat(15, 32)>>

C10_Witness ==
    /\ nr_pc = "done"
    /\ nr_args = DocExample
    /\ nr_calls["newton_refine_solve"] = 1
    /\ nr_out = <<Rat(3, 16), Rat(15, 32)>>

(***************************************************************************)
(* Properties of locate_point, checked under SpecLocate.                   *)
(***************************************************************************)
\* C9: locate_point makes exactly MAX_LOCATE_SUBDIVISIONS + 1 = 21 passes
\* of its subdivision loop before it goes on, and then ends.  It returns
\* None, without a call of newton_refine, exactly when in some round no
\* candidate contained the point; from such a round on the candidate list
\* is empty.  Otherwise it returns a pair (s, t).
C9_LocateRounds ==
    /\ Len(lp_hits) = lp_round
    /\ lp_round <= 21
    /\ lp_pc \in {"refined", "done"} => lp_round = 21
    /\ \A r \in 1..Len(lp_hits) :
         lp_hits[r] = 0 =>
            /\ candidates = <<>>
            /\ \A q \in r..Len(lp_hits) : lp_hits[q] = 0
    /\ lp_pc = "done" =>
         /\ (lp_result = None) <=> (\E r \in 1..21 : lp_hits[r] = 0)
         /\ lp_result = None => lp_calls = 0 /\ lp_st = <<>>
         /\ lp_result # None =>
              /\ lp_result.kind = "tuple"
              /\ Len(lp_result.items) = 2
              /\ lp_calls \in {1, 2}

C9_Witness ==
    /\ lp_pc = "done"
    /\ lp_result = None
    /\ lp_round = 21
    /\ lp_hits[1] > 0
    /\ lp_hits[21] = 0

(***************************************************************************)
(* Properties of newton_refine_solve, checked under SpecSolve.             *)
(***************************************************************************)
\* C11: for jac_both = [A, B, C, D] with A*D - B*C # 0, E = x_val - surf_x
\* and F = y_val - surf_y, the pair (delta_s, delta_t) newton_refine_solve
\* returns satisfies A*delta_s + C*delta_t = E and B*delta_s + D*delta_t = F,
\* that is denom*delta_s = D*E - C*F and denom*delta_t = A*F - B*E.  With
\* delta_s = n_s / d_s and delta_t = n_t / d_t the equations are stated over
\* the integers.
C11_SolveExact ==
    ns_pc = "done" =>
        LET a_val == ns_args.jac_both[1][1]
            b_val == ns_args.jac_both[2][1]
            c_val == ns_args.jac_both[3][1]
            d_val == ns_args.jac_both[4][1]
            e_val == ns_args.x_val[1] - ns_args.surf_x[1]
            f_val == ns_args.y_val[1] - ns_args.surf_y[1]
            denom == a_val * d_val - b_val * c_val
            n_s == ns_out[1][1]
            d_s == ns_out[1][2]
            n_t == ns_out[2][1]
            d_t == ns_out[2][2]
        IN denom # 0 =>
             /\ d_s > 0 /\ d_t > 0
             /\ denom * n_s = (d_val * e_val - c_val * f_val) * d_s
             /\ denom * n_t = (a_val * f_val - b_val * e_val) * d_t
             /\ a_val * n_s * d_t + c_val * n_t * d_s = e_val * d_s * d_t
             /\ b_val * n_s * d_t + d_val * n_t * d_s = f_val * d_s * d_t

C11_Witness ==
    /\ ns_pc = "done"
    /\ ns_args.jac_both = <<R(2), R(1), R(1), R(2)>>
    /\ ns_args.x_val = R(2) /\ ns_args.surf_x = R(1)
    /\ ns_args.y_val = R(-1) /\ ns_args.surf_y = R(1)
    /\ ns_out = <<Rat(4, 3), Rat(-5, 3)>>

\* C12: when candidates survive, newton_refine is called once, from the mean
\* of the surviving centroids; the step that ends locate_point calls it a
\* second time, from the first result, exactly when the surface at the first
\* result is not within LOCATE_EPS of the target, and returns what it then
\* holds with no further check.  So a returned pair has taken exactly one
\* or exactly two calls, and nothing follows the return.
C12_RefinedState ==
    /\ lp_pc = "refined" =>
         /\ lp_calls = 1
         /\ candidates # <<>>
         /\ LET approx == mean_centroid(candidates)
            IN lp_st = newton_refine(lp_args.nodes, lp_args.degree,
                          lp_args.x_val, lp_args.y_val, approx[1], approx[2])
    /\ (lp_pc = "done" /\ lp_result # None) =>
         /\ lp_calls \in {1, 2}
         /\ lp_result = Tuple(lp_st)

C12_ReturnStep ==
    /\ lp_pc = "done" => UNCHANGED lp_vars
    /\ lp_pc = "refined" =>
         LET close == vector_close(SurfaceAt(lp_args.nodes, lp_args.degree,
                                            lp_st[1], lp_st[2]),
                                  <<lp_args.x_val, lp_args.y_val>>)
         IN /\ lp_pc' = "done"
            /\ (lp_calls' = 2) <=> ~close
            /\ (lp_calls' = 1) <=> close
            /\ close => lp_st' = lp_st
            /\ ~close => lp_st' = newton_refine(lp_args.nodes, lp_args.degree,
                              lp_args.x_val, lp_args.y_val, lp_st[1], lp_st[2])
            /\ lp_result' = Tuple(lp_st')

C12_OneOrTwoRefinements == [](C12_RefinedState) /\ [][C12_ReturnStep]_vars

C12_Witness ==
    /\ lp_pc = "done"
    /\ lp_result # None
    /\ lp_calls = 2
    /\ lp_hits[21] > 0

\* The parameter pair a point of a non-degenerate surface of LocateSurfaces
\* comes from: the unit triangle maps (s, t) to (s, t), the skew one to
\* (2 s + t, t).
ParamOf(nodes, point) ==
    IF nodes = UnitNodes THEN point
    ELSE << RDiv(RSub(point[1], point[2]), R(2)), point[2] >>

InUnitTriangle(st) ==
    /\ RLeq(R(0), st[1])
    /\ RLeq(R(0), st[2])
    /\ RLeq(RAdd(st[1], st[2]), R(1))

\* C13: after k rounds every candidate has |width| = 2^-k; its parameter
\* sub-triangle (the one the same quadrisections of the unit triangle give)
\* has the corners p, p + (width, 0), p + (0, width), so the width is
\* negative exactly when the sub-triangle is inverted, and lies in the unit
\* triangle; (centroid_x, centroid_y) is three times its centroid, the sum
\* of its corners.  The mean_centroid estimate of a non-empty candidate
\* list lies inside the unit parameter triangle.
C13_CandidateBookkeeping ==
    /\ \A k \in 1..Len(candidates) :
         LET width == candidates[k][3]
             size == Rat(1, 2 ^ lp_round)
         IN /\ width \in {size, RNeg(size)}
            /\ lp_args.nodes \in {UnitNodes, SkewNodes} =>
                 LET tri == [n \in 1..3 |->
                                ParamOf(lp_args.nodes, candidates[k][4][n])]
                     inverted == /\ ~RLeq(tri[1][1], tri[2][1])
                                 /\ ~RLeq(tri[1][2], tri[3][2])
                 IN /\ tri[2] = <<RAdd(tri[1][1], width), tri[1][2]>>
                    /\ tri[3] = <<tri[1][1], RAdd(tri[1][2], width)>>
                    /\ (width[1] < 0) <=> inverted
                    /\ \A n \in 1..3 : InUnitTriangle(tri[n])
                    /\ candidates[k][1] =
                          RAdd(RAdd(tri[1][1], tri[2][1]), tri[3][1])
                    /\ candidates[k][2] =
                          RAdd(RAdd(tri[1][2], tri[2][2]), tri[3][2])
    /\ (lp_pc # "idle" /\ candidates # <<>>) =>
         InUnitTriangle(mean_centroid(candidates))

C13_Witness ==
    /\ lp_round = 21
    /\ lp_args.nodes = SkewNodes
    /\ Len(candidates) >= 8
    /\ \E k \in 1..Len(candidates) : candidates[k][3][1] < 0
    /\ \E k \in 1..Len(candidates) : candidates[k][3][1] > 0

(***************************************************************************)
(* Symmetry of same_intersection, checked under SpecVerify.                *)
(***************************************************************************)
\* C14 as stated: same_intersection is symmetric: for all intersections a
\* and b handed to verify_duplicates, same_intersection(a, b) equals
\* same_intersection(b, a).
C14_SameIntersectionSymmetric ==
    LET given == {uniques[i] : i \in 1..Len(uniques)} \cup
                 {dupes[i] : i \in 1..Len(dupes)}
    IN \A a, b \in given :
          same_intersection(a, b) <=> same_intersection(b, a)

====
